---- MODULE Spec2Model ----
(***************************************************************************)
(* RioScene fish simulation (final variant): swim box, species templates,  *)
(* spawn into per-species instance bags, per-frame update, click-to-catch  *)
(* with swap-to-tail slot compaction, and the deck of species cards.       *)
(*                                                                         *)
(* Lengths are integers in units of the box guard (0.001 in the source);   *)
(* time and dt are integers.  A velocity is an axis direction and a speed  *)
(* in tenths of a length unit per unit of dt.                              *)
(***************************************************************************)
EXTENDS Integers, Sequences, FiniteSets, TLC

(* ------------------------------ bounds --------------------------------- *)
MaxLevel == 1        \* tweaked world limits range over 0..MaxLevel
MaxDt == 1           \* dt handed to update() ranges over 0..MaxDt
MaxNow == 2          \* the clock read by updateFish stops advancing here
NoiseMax == 1        \* a Gaussian offset is drawn from -NoiseMax..NoiseMax
PopCountA == 3       \* agents of the first species in the population setup
PopCountB == 1       \* agents of the second species in the population setup
SwimCount == 1       \* agents of the only species in the swim-box setup
MaxCardCount == 4    \* clicks stop once the selected card has counted this many
SepCount == 3        \* agents of the only species in the separation setup
MaxSepDt == 4        \* dt of a direct update() call ranges over 0..MaxSepDt
LiveCount == 2       \* agents of the only species in the retarget setup
MaxLoops == 2
MaxStall == 3
MaxCalls == 3
MaxItems == 4
MaxClicks == 3        \* start() is not called once this many loop callbacks are queued

(* ------------------------- program constants --------------------------- *)
Eps == 1             \* the 0.001 guard of the swim box, the unit of length
StartIndex == 3      \* Deck.startIndex

None == "none"       \* undefined / null where the other values are strings
Undefined == -9      \* undefined where the other values are numbers
Inf == 99            \* +Infinity of an empty Box3
SepPeriod == 2       \* 1 / this._sepHz where dt is counted in half periods
PopSepPeriod == 1
DtCap == 1           \* the 0.05 s cap of the frame loop, in this model's unit of dt    \* 1 / this._sepHz where dt is counted in whole periods

(* --------------------------- utility functions -------------------------- *)
MathMax(a, b) == IF a >= b THEN a ELSE b
MathMin(a, b) == IF a <= b THEN a ELSE b

clamp(v, a, b) == MathMax(a, MathMin(b, v))

\* lerp(a, b, Math.random()): every value between a and b can come out
lerp(a, b) == MathMin(a, b)..MathMax(a, b)

Vec(x, y, z) == [x |-> x, y |-> y, z |-> z]

Box3Empty == [min |-> Vec(Inf, Inf, Inf), max |-> Vec(-Inf, -Inf, -Inf)]

containsPoint(box, p) ==
    /\ p.x >= box.min.x /\ p.x <= box.max.x
    /\ p.y >= box.min.y /\ p.y <= box.max.y
    /\ p.z >= box.min.z /\ p.z <= box.max.z

DistSq(p, q) ==
    (p.x - q.x) * (p.x - q.x) + (p.y - q.y) * (p.y - q.y) + (p.z - q.z) * (p.z - q.z)

\* The axis directions a velocity can have
AllDirs == {"x+", "x-", "y+", "y-", "z+", "z-"}

ZeroVel == [dir |-> "zero", spd |-> 0]

\* p + v * dt for a velocity along an axis (speeds are in tenths)
addScaledVector(p, v, dt) ==
    LET d == (v.spd * dt) \div 10 IN
    CASE v.dir = "x+" -> [p EXCEPT !.x = @ + d]
      [] v.dir = "x-" -> [p EXCEPT !.x = @ - d]
      [] v.dir = "y+" -> [p EXCEPT !.y = @ + d]
      [] v.dir = "y-" -> [p EXCEPT !.y = @ - d]
      [] v.dir = "z+" -> [p EXCEPT !.z = @ + d]
      [] v.dir = "z-" -> [p EXCEPT !.z = @ - d]
      [] OTHER        -> p

(* ------------------------------- state --------------------------------- *)
VARIABLES
    params,      \* this.params: world limits and fish tunables
    camX,        \* camera.position.x
    swimBox,     \* this.swimBox
    speciesDefs, \* the SPECIES table: sequence of species definitions
    speciesObjs, \* key -> FishSpecies (count, bias, template, usesFallback)
    agents,      \* agent id -> FishAgent
    fish,        \* this.fish: sequence of agent ids
    instanced,   \* key -> bag (inst, activeCount, agents, instances) or None
    fishGroup,   \* agent ids whose mesh sits in the non-instanced group
    deck,        \* Deck: currentIndex, isAnimating, cards
    pc,          \* lifecycle position of mount()/unmount()
    now,         \* performance.now() in seconds
    randomDirs,  \* the directions a random unit vector is drawn from in this run
    sepPeriod,   \* 1 / this._sepHz in this run's unit of dt
    sepAccum,    \* this._sepAccum: time accumulated since the last rebuild
    hash,        \* this._hash: its cell size s (its map is refilled by every
                 \* rebuild and read only by the neighbors calls of the same
                 \* updateFish, so it is a value of that call, not of the state)
    tickLog,     \* what the last updateFish did: rebuild calls, any neighbors call
    running,     \* App._running
    pendingRaf,  \* loop callbacks handed to requestAnimationFrame for the next frame
    frameQueue,  \* loop callbacks of the animation frame in progress, not yet run
    sinceLast,   \* performance.now() - App._last, in this model's unit of dt
    loopLog,     \* the last loop call that reached the scene: time elapsed, dt passed
    current,     \* App._currentScene: a scene id, 0 for null
    calls,       \* the setScene calls made so far: scene requested, position
    mounts,      \* scene id -> how far its mount() is: "new", "pending", "done"
    listeners,   \* the scenes whose input listeners are registered on the canvas
    inventory,   \* State's data.inventory: sequence of entries
    saves,       \* what Save.save has been called with: the inventory of each call
    recStages,   \* RecorridoScene.stages: <<>> until mount has fetched the config
    recCurrent,  \* RecorridoScene.current
    recShown,    \* the stage whose panorama, and whose marker texture, is displayed
    recLoads,    \* loadStage calls in flight: stage, the texture awaited
    recGlitch,   \* click chains in glitchOffThenLook's animation
    recLook,     \* click chains in smoothLookForward's animation
    recVideo,    \* videoEl.onended holds the handler of a transition being played
    recClicks,   \* marker clicks so far
    events       \* what EventBus.emit has been called with

\* the separation throttle of updateFish
sepVars == <<sepAccum, hash, tickLog>>

\* the tour scene (RecorridoScene) and the transition video of UI
recVars == <<recStages, recCurrent, recShown, recLoads, recGlitch, recLook, recVideo, recClicks>>

\* the inventory of State and its persistence
stateVars == <<inventory, saves>>

\* the scene switch of App
navVars == <<current, calls, mounts, listeners>>

\* the frame loop of App
appVars == <<running, pendingRaf, frameQueue, sinceLast, loopLog>>

vars == <<params, camX, swimBox, speciesDefs, speciesObjs, agents, fish,
          instanced, fishGroup, deck, pc, now, randomDirs, sepPeriod, sepVars, appVars, navVars, stateVars, recVars, events>>

(* ------------------------------ swim box ------------------------------- *)
\* params.swimBoxMaxX ?? params.start.x
SwimBoxMaxXOf(p) == IF p.swimBoxMaxX # Undefined THEN p.swimBoxMaxX ELSE p.startX

initSwimBoxFromParams(p) ==
    [min |-> Vec(p.shoreLevel, p.floorLevel, p.leftLimit),
     max |-> Vec(MathMax(p.shoreLevel + Eps, SwimBoxMaxXOf(p)),
                 MathMax(p.floorLevel + Eps, p.surfaceLevel),
                 p.rightLimit)]

updateSwimBoxDynamic(p) ==
    [min |-> Vec(p.shoreLevel, p.floorLevel, p.leftLimit),
     max |-> Vec(MathMax(p.shoreLevel + Eps, SwimBoxMaxXOf(p)),
                 MathMax(p.floorLevel + Eps, p.surfaceLevel),
                 p.rightLimit)]

projectInsideSwimBox(box, p) ==
    Vec(clamp(p.x, box.min.x, box.max.x),
        clamp(p.y, box.min.y, box.max.y),
        clamp(p.z, box.min.z, box.max.z))

(* ------------------------------ species -------------------------------- *)
Keys(defs) == {defs[i].key : i \in 1..Len(defs)}

\* new FishSpecies(def, scene, baseFishParams, positionBias)
FishSpecies(def, positionBias) ==
    [key |-> def.key,
     speedScale |-> def.speedScale,
     count |-> def.count,
     biasXMean |-> positionBias.meansX[def.shore],
     biasXSigma |-> positionBias.sigmaX[def.shore],
     biasYMean |-> positionBias.meansY[def.water],
     biasYSigma |-> positionBias.sigmaY[def.water],
     template |-> None,
     usesFallback |-> FALSE]

\* What AssetLoader.gltf can do for a species' GLB: resolve with a scene that
\* holds a mesh, with a scene that holds none, with no scene, or reject.
LoadOutcomes == {"scene", "sceneNoMesh", "noScene", "fails"}

\* ensureTemplate without the prism: a load that yields no scene leaves the
\* template unset
ensureTemplateNoFallback(sp, outcome) ==
    IF sp.template # None THEN sp
    ELSE IF outcome = "scene" THEN [sp EXCEPT !.template = "model", !.usesFallback = FALSE]
    ELSE IF outcome = "sceneNoMesh" THEN [sp EXCEPT !.template = "modelNoMesh", !.usesFallback = FALSE]
    ELSE sp

ensureTemplate(sp, outcome) ==
    IF sp.template # None THEN sp
    ELSE IF outcome = "scene" THEN [sp EXCEPT !.template = "model", !.usesFallback = FALSE]
    ELSE IF outcome = "sceneNoMesh" THEN [sp EXCEPT !.template = "modelNoMesh", !.usesFallback = FALSE]
    ELSE [sp EXCEPT !.template = "prism", !.usesFallback = TRUE]

\* template.traverse(o => o.isMesh): the prism is a Mesh, a model may hold none
HasMesh(template) == template \in {"model", "prism"}

\* The points randBiasedPoint can return (means and sigmas are percentages).
randBiasedPoint(sp, box) ==
    LET xSpan == box.max.x - box.min.x
        xMean == box.min.x + (clamp(sp.biasXMean, 0, 100) * xSpan) \div 100
        xSigma == sp.biasXSigma * xSpan
        xs == {xMean + n : n \in (IF xSigma > 0 THEN (-NoiseMax)..NoiseMax ELSE {0})}
        ySpan == box.max.y - box.min.y
        yMean == box.min.y + (clamp(sp.biasYMean, 0, 100) * ySpan) \div 100
        ySigma == sp.biasYSigma * ySpan
        ys == {yMean + n : n \in (IF ySigma > 0 THEN (-NoiseMax)..NoiseMax ELSE {0})}
        zs == lerp(box.min.z, box.max.z)
    IN  {Vec(clamp(x, box.min.x, box.max.x),
             clamp(y, box.min.y, box.max.y),
             clamp(z, box.min.z, box.max.z)) : x \in xs, y \in ys, z \in zs}

\* The agents createAgent can return at clock value t (instanceId not yet set).
createAgent(sp, box, base, t, dirs) ==
    LET speedMin == base.speedMin * sp.speedScale
        speedMax == base.speedMax * sp.speedScale
    IN  {[species |-> sp.key, pos |-> pos, vel |-> [dir |-> d, spd |-> s],
          target |-> target, nextRetargetAt |-> t + r,
          speedMin |-> speedMin, speedMax |-> speedMax, instanceId |-> Undefined,
          sepForce |-> Vec(0, 0, 0)] :
            pos \in randBiasedPoint(sp, box), d \in dirs, s \in lerp(speedMin, speedMax),
            target \in randBiasedPoint(sp, box),
            r \in lerp(base.retargetTime[1], base.retargetTime[2])}

(* --------------------------- instance bags ----------------------------- *)
\* JS array read: a missing index reads as undefined
At(arr, i) == IF i \in DOMAIN arr THEN arr[i] ELSE Undefined
\* JS array write
Put(arr, i, v) == [k \in (DOMAIN arr) \cup {i} |-> IF k = i THEN v ELSE arr[k]]

ZeroPose == [pos |-> Vec(0, 0, 0), fwd |-> "zero"]     \* a zero-filled buffer entry
NaNPose == [pos |-> Vec(Inf, Inf, Inf), fwd |-> "NaN"]  \* a read outside the buffer

\* Map.get(key) of a species without a bag
NoBag == [has |-> FALSE, capacity |-> 0, count |-> 0, activeCount |-> 0,
          agents |-> <<>>, instances |-> <<>>, matrix |-> <<>>]

\* The instance matrix an agent composes: position and heading
Pose(a) == [pos |-> a.pos, fwd |-> IF a.vel.spd > 0 THEN a.vel.dir ELSE "zero"]

\* inst.setMatrixAt(i, m): a write outside the buffer is dropped
setMatrixAt(bag, i, m) ==
    IF i \in 0..(bag.capacity - 1) THEN [bag EXCEPT !.matrix = Put(@, i, m)] ELSE bag

\* inst.getMatrixAt(i, m)
getMatrixAt(bag, i) == IF i \in 0..(bag.capacity - 1) THEN bag.matrix[i] ELSE NaNPose

\* _createInstancedForSpecies: the bag of the species, or None (no mesh)
createInstancedForSpecies(inst, sp, count) ==
    IF inst[sp.key].has THEN inst
    ELSE IF ~HasMesh(sp.template) THEN inst
    ELSE [inst EXCEPT ![sp.key] =
            [has |-> TRUE, capacity |-> count, count |-> count, activeCount |-> 0,
             agents |-> <<>>, instances |-> <<>>,
             matrix |-> [i \in 0..(count - 1) |-> ZeroPose]]]

(* -------------------------------- spawn -------------------------------- *)
\* The instanced loop body that never advances the bag's activeCount
SpawnInstancedNoAdvance(st, key, a) ==
    LET id == Cardinality(DOMAIN st.agents) + 1
        bag == st.instanced[key]
        agent == [a EXCEPT !.instanceId = bag.activeCount]
        bag1 == [bag EXCEPT !.agents = Append(@, id),
                            !.instances = Put(@, agent.instanceId, id)]
    IN  [st EXCEPT !.agents = Put(@, id, agent),
                   !.fish = Append(@, id),
                   !.instanced = [@ EXCEPT ![key] = setMatrixAt(bag1, agent.instanceId, Pose(agent))]]

\* One pass of the instanced spawn loop body for a freshly created agent a.
SpawnInstanced(st, key, a) ==
    LET id == Cardinality(DOMAIN st.agents) + 1
        bag == st.instanced[key]
        agent == [a EXCEPT !.instanceId = bag.activeCount]
        bag1 == [bag EXCEPT !.agents = Append(@, id),
                            !.instances = Put(@, agent.instanceId, id)]
        bag2 == setMatrixAt(bag1, agent.instanceId, Pose(agent))
        bag3 == [bag2 EXCEPT !.activeCount = @ + 1]
    IN  [st EXCEPT !.agents = Put(@, id, agent),
                   !.fish = Append(@, id),
                   !.instanced = [@ EXCEPT ![key] = bag3]]

\* One pass of the non-instanced fallback loop body.
SpawnPlain(st, key, a) ==
    LET id == Cardinality(DOMAIN st.agents) + 1
    IN  [st EXCEPT !.agents = Put(@, id, a),
                   !.fish = Append(@, id),
                   !.fishGroup = @ \cup {id}]

RECURSIVE SpawnLoop(_, _, _, _)
SpawnLoop(S, sp, n, instancedPath) ==
    IF n = 0 THEN S
    ELSE SpawnLoop({IF instancedPath THEN SpawnInstanced(st, sp.key, a) ELSE SpawnPlain(st, sp.key, a) :
                      st \in S, a \in createAgent(sp, swimBox, params.fish, now, randomDirs)},
                   sp, n - 1, instancedPath)

\* The loop body of spawnFishBySpecies for one species sp (its template
\* ensured), from the states S.
SpawnSpecies(S, sp) ==
    LET key == sp.key
        S1 == {[st EXCEPT !.instanced = createInstancedForSpecies(@, sp, sp.count)] : st \in S}
        withBag == {st \in S1 : st.instanced[key].has}
        noBag == {st \in S1 : ~st.instanced[key].has}
        done == SpawnLoop(withBag, sp, sp.count, TRUE)
    IN  {[st EXCEPT !.instanced[key].count = st.instanced[key].activeCount] : st \in done}
        \cup SpawnLoop(noBag, sp, sp.count, FALSE)

\* spawnFishBySpecies over the species objects objs, from species i on
RECURSIVE spawnFishBySpecies(_, _, _)
spawnFishBySpecies(S, objs, i) ==
    IF i > Len(speciesDefs) THEN S
    ELSE spawnFishBySpecies(SpawnSpecies(S, objs[speciesDefs[i].key]), objs, i + 1)

(* --------------------------------- deck -------------------------------- *)
\* new Deck(SPECIES, speciesObjs)
NewDeck(defs) ==
    [built |-> TRUE,
     currentIndex |-> MathMax(0, MathMin(StartIndex, Len(defs) - 1)),
     isAnimating |-> FALSE,
     cards |-> <<>>]

\* this.deck = null
NoDeck == [built |-> FALSE, currentIndex |-> 0, isAnimating |-> FALSE, cards |-> <<>>]

\* Deck.checkMatch: the deck after the call and the value returned
checkMatch(d, speciesKey) ==
    LET i == d.currentIndex + 1
        currentCard == d.cards[i]
    IN  IF currentCard.key = speciesKey
        THEN [deck |-> [d EXCEPT !.cards[i].revealed = TRUE, !.cards[i].count = @ + 1],
              isMatch |-> TRUE]
        ELSE [deck |-> d, isMatch |-> FALSE]

(* ----------------------------- spatial hash --------------------------- *)
\* SpatialHash._key: the cell of a point for cell size s
hashKey(s, v) == <<v.x \div s, v.y \div s, v.z \div s>>

\* new SpatialHash(3.0)
NewHash == [s |-> 3]

\* SpatialHash.rebuild(agents): the map is cleared, then every agent of the
\* list is pushed to the bin of its cell, in list order
RECURSIVE rebuildFrom(_, _, _, _, _)
rebuildFrom(s, map, list, ags, i) ==
    IF i > Len(list) THEN map
    ELSE LET k == hashKey(s, ags[list[i]].pos)
         IN  rebuildFrom(s,
                         IF k \in DOMAIN map
                         THEN [map EXCEPT ![k] = Append(@, list[i])]
                         ELSE map @@ (k :> <<list[i]>>),
                         list, ags, i + 1)

rebuild(h, list, ags) == [s |-> h.s, map |-> rebuildFrom(h.s, <<>>, list, ags, 1)]

\* this.map.get(key) || []: the bin of a cell
binAt(h, cx, cy, cz) ==
    IF <<cx, cy, cz>> \in DOMAIN h.map THEN h.map[<<cx, cy, cz>>] ELSE <<>>

\* SpatialHash.neighbors(p): the bins of the 27 cells around p's cell,
\* appended in the order of the triple loop dx, dy, dz over -1..1
neighborsDz(h, cx, cy, cz) ==
    binAt(h, cx, cy, cz - 1) \o binAt(h, cx, cy, cz) \o binAt(h, cx, cy, cz + 1)

neighborsDy(h, cx, cy, cz) ==
    neighborsDz(h, cx, cy - 1, cz) \o neighborsDz(h, cx, cy, cz) \o neighborsDz(h, cx, cy + 1, cz)

\* A query that reads the cell of p only
neighborsOwnCell(h, p) ==
    LET c == hashKey(h.s, p)
    IN  binAt(h, c[1], c[2], c[3])

neighbors(h, p) ==
    LET c == hashKey(h.s, p)
    IN  neighborsDy(h, c[1] - 1, c[2], c[3]) \o neighborsDy(h, c[1], c[2], c[3])
          \o neighborsDy(h, c[1] + 1, c[2], c[3])

\* Math.sign
Sgn(x) == IF x > 0 THEN 1 ELSE IF x < 0 THEN -1 ELSE 0

\* steerSeparation: every other agent of the list closer than the radius
\* pushes away along the sign of the offset with weight 1/d2 (in hundredths);
\* the sum is scaled by the strength
RECURSIVE steerSeparationFrom(_, _, _, _, _, _)
steerSeparationFrom(ags, a, nbrs, i, radius, strength) ==
    IF i > Len(nbrs) THEN Vec(0, 0, 0)
    ELSE LET rest == steerSeparationFrom(ags, a, nbrs, i + 1, radius, strength)
             other == nbrs[i]
             d2 == DistSq(ags[a].pos, ags[other].pos)
         IN  IF other # a /\ d2 > 0 /\ d2 < radius * radius
             THEN LET w == (100 * strength) \div d2
                  IN  Vec(rest.x + Sgn(ags[a].pos.x - ags[other].pos.x) * w,
                          rest.y + Sgn(ags[a].pos.y - ags[other].pos.y) * w,
                          rest.z + Sgn(ags[a].pos.z - ags[other].pos.z) * w)
             ELSE rest

steerSeparation(ags, a, nbrs, radius, strength) ==
    steerSeparationFrom(ags, a, nbrs, 1, radius, strength)

\* A throttle that catches up: one rebuild for every period the accumulated
\* time holds, the remainder kept
separationTickCatchUp(accum, dt, h, list, ags, pf) ==
    LET acc == accum + dt
        doSeparationTick == acc >= sepPeriod
    IN  [doSeparationTick |-> doSeparationTick,
         sepAccum |-> acc % sepPeriod,
         hash |-> IF doSeparationTick
                  THEN rebuild([h EXCEPT !.s = MathMax(Eps, pf.separationRadius)], list, ags)
                  ELSE [s |-> h.s, map |-> <<>>],
         rebuilds |-> acc \div sepPeriod]

\* The head of updateFish: accumulate dt, decide the separation tick, and on
\* a separation tick reset the accumulator and rebuild the hash with cell
\* size max(1e-3, separationRadius)
separationTick(accum, dt, h, list, ags, pf) ==
    LET acc == accum + dt
        doSeparationTick == acc >= sepPeriod
    IN  [doSeparationTick |-> doSeparationTick,
         sepAccum |-> IF doSeparationTick THEN 0 ELSE acc,
         hash |-> IF doSeparationTick
                  THEN rebuild([h EXCEPT !.s = MathMax(Eps, pf.separationRadius)], list, ags)
                  ELSE [s |-> h.s, map |-> <<>>],
         rebuilds |-> IF doSeparationTick THEN 1 ELSE 0]

\* A loop body that recomputes the stored force in every tick from whatever
\* the index holds
sepForceStepEveryTick(ags, a, h, doSeparationTick, pf) ==
    [ags[a] EXCEPT !.sepForce = steerSeparation(ags, a, neighbors(h, ags[a].pos),
                                                 pf.separationRadius, pf.separationStrength)]

\* The separation part of the loop body: on a separation tick the agent's
\* stored force is recomputed from the neighbors of its position
sepForceStep(ags, a, h, doSeparationTick, pf) ==
    IF doSeparationTick
    THEN [ags[a] EXCEPT !.sepForce = steerSeparation(ags, a, neighbors(h, ags[a].pos),
                                                      pf.separationRadius, pf.separationStrength)]
    ELSE ags[a]

(* ------------------------------- updateFish ---------------------------- *)
\* Vector3.setLength(l): a zero vector stays zero
setLength(v, l) == IF v.spd = 0 THEN v ELSE [v EXCEPT !.spd = l]

\* The velocities vel + force * dt can be for a steering force of magnitude
\* at most accel: unchanged, or any drawn direction at the extreme speeds.
VelAfterForce(v, accel, dt, dirs) ==
    LET dv == accel * dt
        lo == MathMax(0, v.spd - dv)
        hi == v.spd + dv
    IN  IF dv = 0 THEN {v}
        ELSE {v} \cup {IF s = 0 THEN ZeroVel ELSE [dir |-> d, spd |-> s] : d \in dirs, s \in {lo, hi}}

\* Speed clamp to [min(speedMin, 0.9 * speedMax), speedMax]
clampSpeed(v, speedMin, speedMax) ==
    LET max == speedMax
        min == MathMin(speedMin, (max * 9) \div 10)
    IN  IF v.spd > max THEN setLength(v, max)
        ELSE IF v.spd < min THEN setLength(v, min)
        ELSE v

\* A retarget condition without the deadline
RetargetDueNoDeadline(a, box, pf, t) ==
    \/ DistSq(a.target, a.pos) < pf.targetReachDist * pf.targetReachDist
    \/ ~containsPoint(box, a.target)

\* A retarget on every tick
RetargetDueAlways(a, box, pf, t) == TRUE

\* The retarget condition of updateFish for agent a at clock value t
RetargetDue(a, box, pf, t) ==
    \/ DistSq(a.target, a.pos) < pf.targetReachDist * pf.targetReachDist
    \/ t >= a.nextRetargetAt
    \/ ~containsPoint(box, a.target)

\* The loop body of updateFish for one agent: the agents it can leave behind
AgentStep(a, sp, box, pf, t, dt, dirs) ==
    LET retargeted ==
            IF RetargetDue(a, box, pf, t)
            THEN {[a EXCEPT !.target = p, !.nextRetargetAt = t + r] :
                    p \in randBiasedPoint(sp, box),
                    r \in lerp(pf.retargetTime[1], pf.retargetTime[2])}
            ELSE {a}
    IN  UNION {{[b EXCEPT !.vel = clampSpeed(w, b.speedMin, b.speedMax),
                          !.pos = projectInsideSwimBox(box,
                                    addScaledVector(b.pos, clampSpeed(w, b.speedMin, b.speedMax), dt))] :
                    w \in VelAfterForce(b.vel, pf.accel, dt, dirs)} :
                 b \in retargeted}

\* Writing an agent's transform: into its bag's matrix when instanced
WriteTransform(inst, a) ==
    IF a.instanceId # Undefined /\ inst[a.species].has
    THEN [inst EXCEPT ![a.species] = setMatrixAt(@, a.instanceId, Pose(a))]
    ELSE inst

RECURSIVE updateFishLoop(_, _, _, _, _, _)
updateFishLoop(S, i, box, t, dt, sep) ==
    IF i > Len(fish) THEN S
    ELSE updateFishLoop(
            UNION {{[agents |-> [st.agents EXCEPT ![fish[i]] = b],
                     instanced |-> WriteTransform(st.instanced, b)] :
                       b \in AgentStep(sepForceStep(st.agents, fish[i], sep.hash,
                                                    sep.doSeparationTick, params.fish),
                                       speciesObjs[agents[fish[i]].species],
                                       box, params.fish, t, dt, randomDirs)} :
                   st \in S},
            i + 1, box, t, dt, sep)

\* updateFish(dt): the (agents, instanced) pairs it can leave behind, for the
\* outcome sep of its separation throttle
updateFish(box, dt, sep) ==
    updateFishLoop({[agents |-> agents, instanced |-> instanced]}, 1, box, now, dt, sep)

(* -------------------------------- catch -------------------------------- *)
\* What catchFish can be handed: a FishAgent, the root object of an agent's
\* own mesh, or the InstancedMesh of a species.
AgentRef(a) == [kind |-> "agent", id |-> a, key |-> None]
ObjectRef(a) == [kind |-> "object", id |-> a, key |-> None]
InstMeshRef(k) == [kind |-> "instMesh", id |-> Undefined, key |-> k]

\* target.isMesh: an InstancedMesh is a Mesh, the fallback prism is a Mesh,
\* the root of a loaded scene is a Group
IsMesh(target) ==
    \/ target.kind = "instMesh"
    \/ target.kind = "object" /\ speciesObjs[agents[target.id].species].template = "prism"

\* Array.indexOf / findIndex by reference, 0 when absent (1-based otherwise)
IndexOf(seq, x) == IF \E i \in 1..Len(seq) : seq[i] = x
                   THEN CHOOSE i \in 1..Len(seq) : seq[i] = x /\ \A j \in 1..(i - 1) : seq[j] # x
                   ELSE 0

\* Array.splice(idx, 1)
Splice(seq, idx) == [i \in 1..(Len(seq) - 1) |-> IF i < idx THEN seq[i] ELSE seq[i + 1]]

\* A catch that leaves the instance matrices where they are
swapMatricesNone(bag, id, lastActiveId) == bag

\* catchFish step 1: swap the two instance matrices
swapMatrices(bag, id, lastActiveId) ==
    LET mA == getMatrixAt(bag, id)
        mB == getMatrixAt(bag, lastActiveId)
    IN  setMatrixAt(setMatrixAt(bag, id, mB), lastActiveId, mA)

\* The bag-side swap that stores the caught agent at the tail only
swapInstancesTailOnly(bag, a, id, lastActiveId) ==
    [bag EXCEPT !.instances = Put(@, lastActiveId, a)]

\* catchFish step 2, bag side: the last active agent takes slot id, the caught
\* agent goes to the tail
swapInstances(bag, a, id, lastActiveId) ==
    LET other == At(bag.instances, lastActiveId)
        moved == IF other # Undefined THEN Put(bag.instances, id, other) ELSE bag.instances
    IN  [bag EXCEPT !.instances = Put(moved, lastActiveId, a)]

\* The agent-side swap that renumbers the caught agent only
swapInstanceIdsCaughtOnly(ags, bag, a, id, lastActiveId) ==
    [ags EXCEPT ![a].instanceId = lastActiveId]

\* catchFish step 2, agent side: both agents' stored slot identities
swapInstanceIds(ags, bag, a, id, lastActiveId) ==
    LET other == At(bag.instances, lastActiveId)
        ags1 == IF other # Undefined THEN [ags EXCEPT ![other].instanceId = id] ELSE ags
    IN  [ags1 EXCEPT ![a].instanceId = lastActiveId]

\* Clearing the tail slot while the draw range keeps its length
shrinkActiveKeepCount(bag, lastActiveId) ==
    [bag EXCEPT !.instances = Put(@, lastActiveId, Undefined)]

\* Shrinking activeCount while the mesh keeps its draw count
shrinkActiveStaleCount(bag, lastActiveId) ==
    [bag EXCEPT !.activeCount = MathMax(0, @ - 1),
                !.instances = Put(@, lastActiveId, Undefined)]

\* catchFish steps 3 and 4: shrink the draw range, clear the tail slot
shrinkActive(bag, lastActiveId) ==
    LET n == MathMax(0, bag.activeCount - 1)
    IN  [bag EXCEPT !.activeCount = n, !.count = n,
                    !.instances = Put(@, lastActiveId, Undefined)]

\* catchFish step 5: drop from the global list by reference
dropFromFish(list, a) ==
    LET idx == IndexOf(list, a) IN IF idx # 0 THEN Splice(list, idx) ELSE list

\* catchFish(target) on the state st = [agents, fish, instanced, fishGroup]
catchFish(st, target) ==
    IF IsMesh(target)
    THEN \* non-instanced: find the agent whose mesh is the target
         LET a == IF target.kind = "object" THEN target.id ELSE Undefined
             agentIndex == IndexOf(st.fish, a)
         IN  IF agentIndex # 0
             THEN [st EXCEPT !.fish = Splice(@, agentIndex), !.fishGroup = @ \ {a}]
             ELSE st
    ELSE IF target.kind # "agent" \/ st.agents[target.id].instanceId = Undefined THEN st
    ELSE LET a == target.id
             key == st.agents[a].species
             bag == st.instanced[key]
         IN  IF ~bag.has THEN st
             ELSE LET lastActiveId == bag.activeCount - 1
                      id == st.agents[a].instanceId
                      swap == (id # lastActiveId)
                      bag1 == IF swap THEN swapInstances(swapMatrices(bag, id, lastActiveId),
                                                         a, id, lastActiveId)
                              ELSE bag
                      ags1 == IF swap THEN swapInstanceIds(st.agents, bag, a, id, lastActiveId)
                              ELSE st.agents
                  IN  [st EXCEPT !.agents = ags1,
                                 !.instanced = [@ EXCEPT ![key] = shrinkActive(bag1, lastActiveId)],
                                 !.fish = dropFromFish(@, a)]

Scene == [agents |-> agents, fish |-> fish, instanced |-> instanced, fishGroup |-> fishGroup]

(* ---------------------------- configurations --------------------------- *)
FishPositionBias(sigmaX, sigmaY) ==
    [meansX |-> [near |-> 15, mid |-> 50, deep |-> 85],
     sigmaX |-> [near |-> sigmaX, mid |-> sigmaX, deep |-> sigmaX],
     meansY |-> [surface |-> 92, midwater |-> 50, bottom |-> 5],
     sigmaY |-> [surface |-> sigmaY, midwater |-> sigmaY, bottom |-> sigmaY]]

\* Population setup: a fixed small box, no spread, no acceleration, no
\* separation strength
PopParams ==
    [startX |-> 1, shoreLevel |-> 0, floorLevel |-> 0, surfaceLevel |-> 1,
     leftLimit |-> 0, rightLimit |-> 0, swimBoxMaxX |-> Undefined,
     cameraXBounds |-> <<-3, 3>>, wheelStepX |-> 1,
     fish |-> [speedMin |-> 10, speedMax |-> 10, accel |-> 0, targetReachDist |-> 1,
               retargetTime |-> <<2, 2>>, separationRadius |-> 3, separationStrength |-> 0],
     fishPositionBias |-> FishPositionBias(0, 0)]

PopSpecies ==
    <<[key |-> "dorado", count |-> PopCountA, speedScale |-> 1, water |-> "midwater", shore |-> "mid"],
      [key |-> "sabalo", count |-> PopCountB, speedScale |-> 1, water |-> "bottom", shore |-> "near"]>>

\* Swim-box setup: one species, spread and acceleration on
SwimParams ==
    [startX |-> 2, shoreLevel |-> 0, floorLevel |-> 0, surfaceLevel |-> 1,
     leftLimit |-> 1, rightLimit |-> 1, swimBoxMaxX |-> Undefined,
     cameraXBounds |-> <<-3, 3>>, wheelStepX |-> 1,
     fish |-> [speedMin |-> 10, speedMax |-> 10, accel |-> 10, targetReachDist |-> 1,
               retargetTime |-> <<1, 2>>, separationRadius |-> 3, separationStrength |-> 1],
     fishPositionBias |-> FishPositionBias(20, 0)]

SwimSpecies ==
    <<[key |-> "dorado", count |-> SwimCount, speedScale |-> 1, water |-> "midwater", shore |-> "mid"]>>

\* Separation setup: one species spawned at one point of a box three cells
\* long, separation strength on
SepParams ==
    [startX |-> 5, shoreLevel |-> 0, floorLevel |-> 0, surfaceLevel |-> 1,
     leftLimit |-> 0, rightLimit |-> 0, swimBoxMaxX |-> Undefined,
     cameraXBounds |-> <<-3, 3>>, wheelStepX |-> 1,
     fish |-> [speedMin |-> 10, speedMax |-> 10, accel |-> 0, targetReachDist |-> 1,
               retargetTime |-> <<1, 1>>, separationRadius |-> 2, separationStrength |-> 1],
     fishPositionBias |-> FishPositionBias(0, 0)]

SepSpecies ==
    <<[key |-> "dorado", count |-> SepCount, speedScale |-> 1, water |-> "midwater", shore |-> "mid"]>>

\* The scene after its constructor, made current by the first setScene call,
\* mount() awaiting the environment model;
\* the app was started before any scene existed, so its loop has run once
\* without a scene and waits for the next animation frame
ConstructedOn(p, defs, dirs, period, loaded) ==
    /\ params = p
    /\ camX = 0
    /\ swimBox = Box3Empty
    /\ speciesDefs = defs
    /\ speciesObjs = <<>>
    /\ agents = <<>>
    /\ fish = <<>>
    /\ instanced = [k \in Keys(defs) |-> NoBag]
    /\ fishGroup = {}
    /\ deck = NoDeck
    /\ pc = "loading"
    /\ now = 0
    /\ randomDirs = dirs
    /\ sepPeriod = period
    /\ sepAccum = 0
    /\ hash = NewHash
    /\ tickLog = [rebuilds |-> 0, queried |-> FALSE]
    /\ running = TRUE
    /\ pendingRaf = 1
    /\ frameQueue = 0
    /\ sinceLast = 0
    /\ loopLog = [elapsed |-> Undefined, dt |-> Undefined]
    /\ current = 1
    /\ calls = <<[scene |-> 1, pc |-> "mounting"]>>
    /\ mounts = <<"pending">>
    /\ listeners = {}
    /\ inventory = loaded
    /\ saves = <<>>
    /\ recStages = <<>>
    /\ recCurrent = 0
    /\ recShown = [photo |-> Undefined, marker |-> Undefined]
    /\ recLoads = <<>>
    /\ recGlitch = 0
    /\ recLook = 0
    /\ recVideo = FALSE
    /\ recClicks = 0
    /\ events = <<>>

\* the same on a browser with nothing saved
Constructed(p, defs, dirs, period) == ConstructedOn(p, defs, dirs, period, <<>>)

Init == Constructed(PopParams, PopSpecies, {"x+"}, PopSepPeriod)

InitSwim == Constructed(SwimParams, SwimSpecies, {"x+", "x-", "z+"}, PopSepPeriod)

\* Retarget setup: the separation setup's box with a retarget delay of 1..2
LiveParams == [SepParams EXCEPT !.fish.retargetTime = <<1, 2>>]

LiveSpecies ==
    <<[key |-> "dorado", count |-> LiveCount, speedScale |-> 1, water |-> "midwater", shore |-> "mid"]>>

InitLive == Constructed(LiveParams, LiveSpecies, {"x+"}, PopSepPeriod)

InitCatch == Constructed(SepParams, SepSpecies, {"x+", "x-"}, PopSepPeriod)

InitSep == Constructed(SepParams, SepSpecies, {"x+", "x-", "y+"}, SepPeriod)

\* Single-population setup for callers of catchFish
ApiSpecies ==
    <<[key |-> "dorado", count |-> PopCountA, speedScale |-> 1, water |-> "midwater", shore |-> "mid"]>>

InitApi == Constructed(PopParams, ApiSpecies, {"x+"}, PopSepPeriod)

\* Deck setup: three species, one fish each
DeckSpecies ==
    <<[key |-> "dorado", count |-> 1, speedScale |-> 1, water |-> "midwater", shore |-> "mid"],
      [key |-> "sabalo", count |-> 1, speedScale |-> 1, water |-> "bottom", shore |-> "near"],
      [key |-> "surubi", count |-> 1, speedScale |-> 1, water |-> "bottom", shore |-> "deep"]>>

InitDeck == Constructed(PopParams, DeckSpecies, {"x+"}, PopSepPeriod)

\* DEFAULT_PARAMS.fishPositionBias as the source sets it: sigma 0.20 on X and
\* on Y in every stratum
DefaultBias == FishPositionBias(20, 20)

\* Default-bias setup: the swim-box setup with the bias of DEFAULT_PARAMS
DefaultBiasParams == [SwimParams EXCEPT !.fishPositionBias = DefaultBias]

InitDefaultBias == Constructed(DefaultBiasParams, SwimSpecies, {"x+"}, PopSepPeriod)

(* -------------------------------- mount -------------------------------- *)
\* mount() from the camera pose to the construction of the deck
MountBegin ==
    /\ pc = "loading"
    /\ camX' = params.startX
    /\ params' = [params EXCEPT !.swimBoxMaxX = params.startX]
    /\ swimBox' = initSwimBoxFromParams(params')
    /\ speciesObjs' = [k \in Keys(speciesDefs) |->
            FishSpecies(CHOOSE d \in {speciesDefs[i] : i \in 1..Len(speciesDefs)} : d.key = k,
                        params.fishPositionBias)]
    /\ deck' = NewDeck(speciesDefs)
    /\ pc' = "deck"
    /\ UNCHANGED <<speciesDefs, agents, fish, instanced, fishGroup, now, randomDirs, sepPeriod, sepVars, appVars, navVars, stateVars, recVars, events>>

\* One pass of the loop of Deck.build: the species' asset settles, its card
\* is pushed; after the last card updateCarousel starts the animation.
DeckBuildCard(outcome) ==
    /\ pc = "deck"
    /\ Len(deck.cards) < Len(speciesDefs)
    /\ LET i == Len(deck.cards) + 1
           key == speciesDefs[i].key
           sp == ensureTemplate(speciesObjs[key], outcome)
       IN  /\ speciesObjs' = [speciesObjs EXCEPT ![key] = sp]
           /\ IF sp.template = None
              THEN \* template.clone throws: mount() rejects
                   /\ pc' = "failed"
                   /\ deck' = deck
              ELSE /\ pc' = pc
                   /\ deck' = [deck EXCEPT
                        !.cards = Append(@, [key |-> key, revealed |-> FALSE, count |-> 0]),
                        !.isAnimating = IF i = Len(speciesDefs) THEN TRUE ELSE @]
    /\ UNCHANGED <<params, camX, swimBox, speciesDefs, agents, fish, instanced, fishGroup, now, randomDirs, sepPeriod, sepVars, appVars, navVars, stateVars, recVars, events>>

\* await this.spawnFishBySpecies(): each species' template is ensured again
\* (outs: what its asset load would do), then its agents are created
SpawnFish ==
    /\ pc = "deck"
    /\ Len(deck.cards) = Len(speciesDefs)
    /\ \E outs \in [Keys(speciesDefs) -> LoadOutcomes] :
          /\ speciesObjs' = [k \in Keys(speciesDefs) |-> ensureTemplate(speciesObjs[k], outs[k])]
          /\ \E st \in spawnFishBySpecies({[agents |-> agents, fish |-> <<>>,
                                            instanced |-> instanced, fishGroup |-> fishGroup]},
                                          speciesObjs', 1) :
                /\ agents' = st.agents
                /\ fish' = st.fish
                /\ instanced' = st.instanced
                /\ fishGroup' = st.fishGroup
    /\ pc' = "spawned"
    /\ UNCHANGED <<params, camX, swimBox, speciesDefs, deck, now, randomDirs, sepPeriod, sepVars, appVars, navVars, stateVars, recVars, events>>

\* "Ensure all agents are inside the initial swimBox": the agent maps the
\* loop can leave behind
RECURSIVE ensureInside(_, _)
ensureInside(S, i) ==
    IF i > Len(fish) THEN S
    ELSE ensureInside(
            UNION {{[ags EXCEPT ![fish[i]].pos = projectInsideSwimBox(swimBox, @),
                                ![fish[i]].target = t] :
                      t \in (IF containsPoint(swimBox, ags[fish[i]].target)
                             THEN {ags[fish[i]].target}
                             ELSE randBiasedPoint(speciesObjs[ags[fish[i]].species], swimBox))} :
                   ags \in S},
            i + 1)

\* the rest of mount(): project the agents, register the input listeners
MountFinish ==
    /\ pc = "spawned"
    /\ agents' \in ensureInside({agents}, 1)
    /\ pc' = "mounted"
    /\ mounts' = [mounts EXCEPT ![1] = "done"]
    /\ listeners' = listeners \cup {1}
    /\ UNCHANGED <<params, camX, swimBox, speciesDefs, speciesObjs, fish, instanced,
                   fishGroup, deck, now, randomDirs, sepPeriod, sepVars, appVars,
                   current, calls, stateVars, recVars, events>>

(* ------------------------------ per frame ------------------------------ *)
\* performance.now() moves on between handlers
Elapse ==
    /\ now < MaxNow
    /\ now' = now + 1
    /\ UNCHANGED <<params, camX, swimBox, speciesDefs, speciesObjs, agents, fish,
                   instanced, fishGroup, deck, pc, randomDirs, sepPeriod, sepVars, appVars, navVars, stateVars, recVars, events>>

\* The clock advancing by one unit, told relative to the clock: updateFish
\* and createAgent read the clock only to compare it with a deadline or to
\* add a delay to it, so every deadline moves one unit closer and a deadline
\* that has passed stays passed
ElapseRel ==
    /\ agents' = [a \in DOMAIN agents |->
                    [agents[a] EXCEPT !.nextRetargetAt = MathMax(now, @ - 1)]]
    /\ UNCHANGED <<params, camX, swimBox, speciesDefs, speciesObjs, fish, instanced,
                   fishGroup, deck, pc, now, randomDirs, sepPeriod, sepVars, appVars, navVars, stateVars, recVars, events>>

\* RioScene.update(dt)
update(dt) ==
    /\ pc \in {"loading", "deck", "mounted"}
    /\ camX' = MathMax(clamp(camX, params.cameraXBounds[1], params.cameraXBounds[2]),
                       params.shoreLevel)
    /\ swimBox' = updateSwimBoxDynamic(params)
    /\ IF Len(fish) > 0
       THEN LET sep == separationTick(sepAccum, dt, hash, fish, agents, params.fish)
            IN  /\ sepAccum' = sep.sepAccum
                /\ hash' = [s |-> sep.hash.s]
                /\ tickLog' = [rebuilds |-> sep.rebuilds, queried |-> sep.doSeparationTick]
                /\ \E st \in updateFish(swimBox', dt, sep) :
                      /\ agents' = st.agents
                      /\ instanced' = st.instanced
       ELSE UNCHANGED <<agents, instanced, sepVars>>
    /\ UNCHANGED <<params, speciesDefs, speciesObjs, fish, fishGroup, deck, pc, now, randomDirs, sepPeriod, events>>

\* update(dt), called by the frame loop on the current scene (mount included);
\* the loop callback that made the call has handed itself to the next frame
Update(dt) == update(dt) /\ UNCHANGED <<appVars, navVars, stateVars, recVars>>

(* ------------------------------ frame loop ----------------------------- *)
\* Real time passes between two runs of the event loop
AppElapse ==
    /\ UNCHANGED <<navVars, stateVars, recVars>>
    /\ sinceLast < MaxStall
    /\ sinceLast' = sinceLast + 1
    /\ UNCHANGED <<params, camX, swimBox, speciesDefs, speciesObjs, agents, fish,
                   instanced, fishGroup, deck, pc, now, randomDirs, sepPeriod, sepVars,
                   running, pendingRaf, frameQueue, loopLog, events>>

\* dt without the cap: the whole time elapsed
loopDtUncapped(elapsed) == elapsed

\* const dt = Math.min((now - this._last) / 1000, 0.05)
loopDt(elapsed) == MathMin(elapsed, DtCap)

\* The body of the loop closure of start() when the app is running: dt from
\* the clock, _last reset, the scene updated, the closure handed to the next
\* animation frame
loop ==
    /\ sinceLast' = 0
    /\ loopLog' = [elapsed |-> sinceLast, dt |-> loopDt(sinceLast)]
    /\ update(loopDt(sinceLast))
    /\ pendingRaf' = pendingRaf + 1

\* App.start(): nothing when already running; else the flag is set and a new
\* loop closure is called at once: it updates the scene and hands itself to
\* requestAnimationFrame
AppStart ==
    /\ UNCHANGED <<navVars, stateVars, recVars>>
    /\ ~running
    /\ frameQueue = 0
    /\ pendingRaf < MaxLoops
    /\ running' = TRUE
    /\ loop
    /\ UNCHANGED frameQueue

\* App.stop(): the flag only; callbacks already handed over stay queued
AppStop ==
    /\ UNCHANGED <<navVars, stateVars, recVars>>
    /\ running
    /\ frameQueue = 0
    /\ running' = FALSE
    /\ UNCHANGED <<params, camX, swimBox, speciesDefs, speciesObjs, agents, fish,
                   instanced, fishGroup, deck, pc, now, randomDirs, sepPeriod, sepVars,
                   pendingRaf, frameQueue, sinceLast, loopLog, events>>

\* The browser begins an animation frame: the callbacks handed over so far
\* are the ones this frame runs
BeginFrame ==
    /\ UNCHANGED <<navVars, stateVars, recVars>>
    /\ frameQueue = 0
    /\ pendingRaf > 0
    /\ frameQueue' = pendingRaf
    /\ pendingRaf' = 0
    /\ UNCHANGED <<params, camX, swimBox, speciesDefs, speciesObjs, agents, fish,
                   instanced, fishGroup, deck, pc, now, randomDirs, sepPeriod, sepVars,
                   running, sinceLast, loopLog, events>>

\* One loop callback of the frame runs: it returns when the app is stopped,
\* else it updates the scene and hands itself to the next frame
RunCallback ==
    /\ UNCHANGED <<navVars, stateVars, recVars>>
    /\ frameQueue > 0
    /\ frameQueue' = frameQueue - 1
    /\ IF running
       THEN loop
       ELSE UNCHANGED <<params, camX, swimBox, speciesDefs, speciesObjs, agents, fish,
                        instanced, fishGroup, deck, pc, now, randomDirs, sepPeriod, sepVars,
                        pendingRaf, sinceLast, loopLog, events>>
    /\ UNCHANGED running

(* ----------------------------- scene switch ---------------------------- *)
\* what setScene leaves alone in the scene
sceneVars == <<params, camX, swimBox, speciesDefs, speciesObjs, agents, fish, instanced,
               fishGroup, deck, pc, now, randomDirs, sepPeriod, sepVars, appVars, stateVars,
               recVars>>

\* unmount() of scene s: its input listeners are removed from the canvas;
\* listeners its mount() has not registered yet are not there to remove
unmount(s) == listeners \ {s}

\* App.setScene(scene) with a scene made for the call, up to its first
\* await: with a current scene, that scene's unmount() is called and awaited;
\* with none, the scene is made current and its mount() is called and awaited
SetScene ==
    /\ Len(calls) < MaxCalls
    /\ LET s == Len(mounts) + 1
       IN  IF current # 0
           THEN /\ listeners' = unmount(current)
                /\ calls' = Append(calls, [scene |-> s, pc |-> "unmounting"])
                /\ mounts' = Append(mounts, "new")
                /\ UNCHANGED current
           ELSE /\ current' = s
                /\ calls' = Append(calls, [scene |-> s, pc |-> "mounting"])
                /\ mounts' = Append(mounts, "pending")
                /\ UNCHANGED listeners
    /\ UNCHANGED <<sceneVars, events>>

\* setScene resumes after the await of unmount(): _currentScene = null, then
\* the requested scene is made current and its mount() is called and awaited.
\* The calls waiting on an unmount resume in the order they were made.
ResumeUnmounted(i) ==
    /\ calls[i].pc = "unmounting"
    /\ \A j \in 1..(i - 1) : calls[j].pc # "unmounting"
    /\ current' = calls[i].scene
    /\ calls' = [calls EXCEPT ![i].pc = "mounting"]
    /\ mounts' = [mounts EXCEPT ![calls[i].scene] = "pending"]
    /\ UNCHANGED <<sceneVars, listeners, events>>

\* mount() of a scene other than the first runs to its end, where it
\* registers the scene's input listeners on the canvas
SceneMountEnd(s) ==
    /\ s # 1
    /\ mounts[s] = "pending"
    /\ mounts' = [mounts EXCEPT ![s] = "done"]
    /\ listeners' = listeners \cup {s}
    /\ UNCHANGED <<sceneVars, current, calls, events>>

\* setScene resumes after the await of mount(): resize, then 'scene:changed'
ResumeMounted(i) ==
    /\ calls[i].pc = "mounting"
    /\ mounts[calls[i].scene] = "done"
    /\ calls' = [calls EXCEPT ![i].pc = "settled"]
    /\ events' = Append(events, [type |-> "scene:changed", scene |-> calls[i].scene])
    /\ UNCHANGED <<sceneVars, current, mounts, listeners>>

(* ------------------------------ inventory ------------------------------ *)
\* The ids, and the items, addItem is called with
ItemIds == 1..MaxItems

Items == [id : ItemIds, name : {"a", "b"}]

\* The inventories Save.load() can return: no two entries with one id
LoadedInventories ==
    {<<>>} \cup {<<[id |-> i, name |-> "a", whenISO |-> 0]>> : i \in ItemIds}
           \cup {<<[id |-> ij[1], name |-> "a", whenISO |-> 0],
                   [id |-> ij[2], name |-> "b", whenISO |-> 0]>> :
                     ij \in {q \in ItemIds \X ItemIds : q[1] # q[2]}}

\* A lookup that finds nothing
findNothing(inv, id) == FALSE

\* data.inventory.find(x => x.id === item.id), as the truth value of its result
find(inv, id) == \E i \in DOMAIN inv : inv[i].id = id

\* State.addItem(item): the inventory, the saves and the events after it
addItem(inv, sv, ev, item) ==
    IF ~find(inv, item.id)
    THEN LET pushed == Append(inv, [id |-> item.id, name |-> item.name, whenISO |-> now])
         IN  [inventory |-> pushed,
              saves |-> Append(sv, pushed),
              events |-> Append(ev, [type |-> "inventory:changed"])]
    ELSE [inventory |-> inv, saves |-> sv, events |-> ev]

\* a call of State.addItem(item)
AddItem(item) ==
    /\ Len(inventory) <= MaxItems
    /\ LET r == addItem(inventory, saves, events, item)
       IN  /\ inventory' = r.inventory
           /\ saves' = r.saves
           /\ events' = r.events
    /\ UNCHANGED <<params, camX, swimBox, speciesDefs, speciesObjs, agents, fish, instanced,
                   fishGroup, deck, pc, now, randomDirs, sepPeriod, sepVars, appVars, navVars,
                   recVars>>

(* ------------------------------ tour scene ----------------------------- *)
\* conf.stages of the tour: whether a stage has a transition video, and its
\* reward (id 0: no reward)
TourStages ==
    <<[transition |-> TRUE,  reward |-> [id |-> 1, name |-> "a"]],
      [transition |-> FALSE, reward |-> [id |-> 2, name |-> "a"]],
      [transition |-> TRUE,  reward |-> [id |-> 0, name |-> "a"]]>>

\* what the tour's handlers leave alone
tourFrame == <<params, camX, swimBox, speciesDefs, speciesObjs, agents, fish, instanced,
               fishGroup, deck, pc, now, randomDirs, sepPeriod, sepVars, appVars, navVars>>

\* loadStage(i) up to its first await: current is set, the panorama awaited
loadStage(i) ==
    /\ recCurrent' = i
    /\ recLoads' = Append(recLoads, [stage |-> i, pc |-> "photo"])

\* nextStage()
nextStage == loadStage((recCurrent + 1) % Len(recStages))

\* mount() of the tour once the config has been fetched: loadStage(0)
TourMount ==
    /\ recStages = <<>>
    /\ recStages' = TourStages
    /\ loadStage(0)
    /\ UNCHANGED <<tourFrame, stateVars, recShown, recGlitch, recLook, recVideo, recClicks, events>>

\* onClick with the ray hitting the marker: a chain of animations starts
\* (the listener is registered before mount() fetches the config)
TourClick ==
    /\ recClicks < MaxClicks
    /\ recClicks' = recClicks + 1
    /\ recGlitch' = recGlitch + 1
    /\ UNCHANGED <<tourFrame, stateVars, recStages, recCurrent, recShown, recLoads, recLook,
                   recVideo, events>>

\* the last frame of a chain's glitch animation: smoothLookForward reads
\* stages[current].forward, which throws when the stage does not exist
TourGlitchEnd ==
    /\ recGlitch > 0
    /\ recGlitch' = recGlitch - 1
    /\ recLook' = IF recCurrent + 1 \in DOMAIN recStages THEN recLook + 1 ELSE recLook
    /\ UNCHANGED <<tourFrame, stateVars, recStages, recCurrent, recShown, recLoads, recVideo,
                   recClicks, events>>

\* the last frame of a chain's look animation: playTransition, which for a
\* stage without a transition calls nextStage at once, and else gives the
\* video element the handler that will call it and adds the stage's reward
TourLookEnd ==
    /\ recLook > 0
    /\ recLook' = recLook - 1
    /\ LET st == recStages[recCurrent + 1]
       IN  IF ~st.transition
           THEN nextStage /\ UNCHANGED <<recVideo, stateVars, events>>
           ELSE /\ recVideo' = TRUE
                /\ LET r == IF st.reward.id # 0
                            THEN addItem(inventory, saves, events, st.reward)
                            ELSE [inventory |-> inventory, saves |-> saves, events |-> events]
                   IN  /\ inventory' = r.inventory
                       /\ saves' = r.saves
                       /\ events' = r.events
                /\ UNCHANGED <<recCurrent, recLoads>>
    /\ UNCHANGED <<tourFrame, recStages, recShown, recGlitch, recClicks>>

\* the transition video ends: the handler is removed, the overlay hidden,
\* nextStage called
TourVideoEnded ==
    /\ recVideo
    /\ recVideo' = FALSE
    /\ nextStage
    /\ UNCHANGED <<tourFrame, stateVars, recStages, recShown, recGlitch, recLook, recClicks, events>>

\* hideVideo by Escape or a click on the overlay: the video is paused and
\* never ends
TourVideoClosed ==
    /\ recVideo
    /\ recVideo' = FALSE
    /\ UNCHANGED <<tourFrame, stateVars, recStages, recCurrent, recShown, recLoads, recGlitch,
                   recLook, recClicks, events>>

\* the panorama texture of a loadStage call arrives: it is displayed and
\* the marker texture awaited
TourPhotoLoaded(i) ==
    /\ recLoads[i].pc = "photo"
    /\ recShown' = [recShown EXCEPT !.photo = recLoads[i].stage]
    /\ recLoads' = [recLoads EXCEPT ![i].pc = "marker"]
    /\ UNCHANGED <<tourFrame, stateVars, recStages, recCurrent, recGlitch, recLook, recVideo,
                   recClicks, events>>

\* the marker texture of a loadStage call arrives: marker, anchor and
\* orientation are set and the call returns
TourMarkerLoaded(i) ==
    /\ recLoads[i].pc = "marker"
    /\ recShown' = [recShown EXCEPT !.marker = recLoads[i].stage]
    /\ recLoads' = [j \in 1..(Len(recLoads) - 1) |->
                       IF j < i THEN recLoads[j] ELSE recLoads[j + 1]]
    /\ UNCHANGED <<tourFrame, stateVars, recStages, recCurrent, recGlitch, recLook, recVideo,
                   recClicks, events>>

(* -------------------------------- input -------------------------------- *)
\* onWheel(e) with dir = Math.sign(e.deltaY)
OnWheel(dir) ==
    /\ pc = "mounted"
    /\ LET step == params.wheelStepX
           minX == swimBox.min.x
           maxX == params.startX
           newX == camX + (IF dir > 0 THEN step ELSE -step)
       IN  camX' = clamp(newX, minX, maxX)
    /\ swimBox' = updateSwimBoxDynamic(params)
    /\ UNCHANGED <<params, speciesDefs, speciesObjs, agents, fish, instanced,
                   fishGroup, deck, pc, now, randomDirs, sepPeriod, sepVars, appVars, navVars, stateVars, recVars, events>>

\* A cycle that moves the selection without wrapping around
cycleNoWrap(d, direction) ==
    IF d.isAnimating THEN d
    ELSE [d EXCEPT !.currentIndex = @ + direction, !.isAnimating = TRUE]

\* Deck.cycle(direction), updateCarousel included: the deck after the call
cycle(d, direction) ==
    IF d.isAnimating THEN d
    ELSE [d EXCEPT !.currentIndex = (@ + direction + Len(d.cards)) % Len(d.cards),
                   !.isAnimating = TRUE]

\* onKeyDown with ArrowRight (+1) or ArrowLeft (-1)
OnKeyDown(direction) ==
    /\ pc = "mounted"
    /\ deck' = cycle(deck, direction)
    /\ UNCHANGED <<params, camX, swimBox, speciesDefs, speciesObjs, agents, fish,
                   instanced, fishGroup, pc, now, randomDirs, sepPeriod, sepVars, appVars, navVars, stateVars, recVars, events>>

\* the 300 ms timer of updateCarousel
AnimationEnd ==
    /\ deck.built
    /\ deck.isAnimating
    /\ deck' = [deck EXCEPT !.isAnimating = FALSE]
    /\ UNCHANGED <<params, camX, swimBox, speciesDefs, speciesObjs, agents, fish,
                   instanced, fishGroup, pc, now, randomDirs, sepPeriod, sepVars, appVars, navVars, stateVars, recVars, events>>

\* The first intersection of the click ray: an instance of a species'
\* InstancedMesh, an object of the non-instanced group, or nothing.
InstHit(k, slot) == [kind |-> "inst", key |-> k, slot |-> slot, id |-> Undefined]
ObjectHit(a) == [kind |-> "object", key |-> None, slot |-> Undefined, id |-> a]
NoHit == [kind |-> "none", key |-> None, slot |-> Undefined, id |-> Undefined]

\* The raycaster tests the first inst.count instances of each InstancedMesh.
RaycastHits ==
    UNION {{InstHit(k, slot) : slot \in 0..(instanced[k].count - 1)} :
             k \in {q \in DOMAIN instanced : instanced[q].has}}

\* Slots a caller may still hold although the draw range no longer has them
StaleHits ==
    UNION {{InstHit(k, slot) : slot \in instanced[k].count..(instanced[k].capacity - 1)} :
             k \in {q \in DOMAIN instanced : instanced[q].has}}

\* onMouseDown for the first intersection hit
onMouseDown(hit) ==
    IF hit.kind = "inst" /\ instanced[hit.key].has
          /\ At(instanced[hit.key].instances, hit.slot) # Undefined
    THEN LET agent == At(instanced[hit.key].instances, hit.slot)
             r == checkMatch(deck, hit.key)
         IN  [deck |-> r.deck,
              scene |-> IF r.isMatch THEN catchFish(Scene, AgentRef(agent)) ELSE Scene]
    ELSE IF hit.kind = "inst"
    THEN \* no agent at that slot: the walk up the parents finds the
         \* InstancedMesh itself, which carries the species key
         LET r == checkMatch(deck, hit.key)
         IN  [deck |-> r.deck,
              scene |-> IF r.isMatch THEN catchFish(Scene, InstMeshRef(hit.key)) ELSE Scene]
    ELSE IF hit.kind = "object"
    THEN LET r == checkMatch(deck, agents[hit.id].species)
         IN  [deck |-> r.deck,
              scene |-> IF r.isMatch THEN catchFish(Scene, ObjectRef(hit.id)) ELSE Scene]
    ELSE [deck |-> deck, scene |-> Scene]

Click(hit) ==
    /\ pc = "mounted"
    /\ deck.cards[deck.currentIndex + 1].count < MaxCardCount
    /\ LET r == onMouseDown(hit)
       IN  /\ deck' = r.deck
           /\ agents' = r.scene.agents
           /\ fish' = r.scene.fish
           /\ instanced' = r.scene.instanced
           /\ fishGroup' = r.scene.fishGroup
    /\ UNCHANGED <<params, camX, swimBox, speciesDefs, speciesObjs, pc, now, randomDirs, sepPeriod, sepVars, appVars, navVars, stateVars, recVars, events>>

OnMouseDown == \E hit \in RaycastHits \cup {ObjectHit(a) : a \in fishGroup} \cup {NoHit} : Click(hit)

\* a click resolved to a slot outside the draw range (a stale slot reference)
OnMouseDownStale == \E hit \in StaleHits : Click(hit)

\* catchFish(agent) called with an agent the caller still holds
CatchFishCall(a) ==
    /\ pc = "mounted"
    /\ LET st == catchFish(Scene, AgentRef(a))
       IN  /\ agents' = st.agents
           /\ fish' = st.fish
           /\ instanced' = st.instanced
           /\ fishGroup' = st.fishGroup
    /\ UNCHANGED <<params, camX, swimBox, speciesDefs, speciesObjs, deck, pc, now, randomDirs, sepPeriod, sepVars, appVars, navVars, stateVars, recVars, events>>

\* a runtime edit of one world limit in this.params
TweakFields == {"shoreLevel", "floorLevel", "surfaceLevel", "leftLimit", "rightLimit", "swimBoxMaxX"}

TweakParams(fields) ==
    /\ \E f \in fields, v \in 0..MaxLevel :
          /\ params[f] # v
          /\ params' = [params EXCEPT ![f] = v]
    /\ UNCHANGED <<camX, swimBox, speciesDefs, speciesObjs, agents, fish, instanced,
                   fishGroup, deck, pc, now, randomDirs, sepPeriod, sepVars, appVars, navVars, stateVars, recVars, events>>

(* ---------------------------- specifications --------------------------- *)
Mount == MountBegin \/ (\E o \in LoadOutcomes : DeckBuildCard(o)) \/ SpawnFish \/ MountFinish

\* an animation frame of the one loop the app runs
Frame ==
    /\ running /\ pendingRaf = 1 /\ frameQueue = 0
    /\ \E dt \in 0..MaxDt : Update(dt)

Input == (\E dir \in {-1, 0, 1} : OnWheel(dir))
            \/ (\E d \in {-1, 1} : OnKeyDown(d))
            \/ AnimationEnd
            \/ OnMouseDown

\* the population setup within one reading of the clock
Next == Mount \/ Frame \/ Input

Spec == Init /\ [][Next]_vars

\* one population, with callers that hold stale slots and agents
NextApi == Mount \/ Frame \/ OnMouseDown \/ OnMouseDownStale
              \/ (\E a \in DOMAIN agents : CatchFishCall(a))

SpecApi == InitApi /\ [][NextApi]_vars

\* update(dt) called with any dt, several separation periods included
LongUpdate == \E dt \in 0..MaxSepDt : Update(dt)

\* the separation setup under updates of any length
NextSep == Mount \/ LongUpdate

SpecSep == InitSep /\ [][NextSep]_vars

\* the separation setup under the app's start, stop and animation frames
NextApp == Mount \/ AppStart \/ AppStop \/ BeginFrame \/ RunCallback \/ AppElapse

SpecApp == InitSep /\ [][NextApp]_vars

\* the separation setup, whose agents swim apart, under frames and clicks
NextCatch == Mount \/ Frame \/ OnMouseDown

SpecCatch == InitCatch /\ [][NextCatch]_vars

\* the retarget setup with clicks, where mount returns once the fish are
\* spawned, the clock keeps advancing and animation frames keep coming
NextLive == Mount \/ Frame \/ ElapseRel \/ OnMouseDown

\* an animation frame that finds the deadline of an active agent reached
FrameDue == (\E a \in {fish[i] : i \in 1..Len(fish)} : now >= agents[a].nextRetargetAt) /\ Frame

SpecLive ==
    InitLive /\ [][NextLive]_vars
       /\ WF_vars(MountFinish) /\ WF_vars(ElapseRel) /\ WF_vars(FrameDue)

\* the swim-box setup with the clock running and runtime edits of the far X
\* and Z limits
NextSwim == Next \/ Elapse \/ TweakParams({"swimBoxMaxX", "rightLimit"})

SpecSwim == InitSwim /\ [][NextSwim]_vars

\* the swim box alone, while the deck is still loading, under runtime edits
\* of every world limit
NextBox == MountBegin \/ TweakParams(TweakFields) \/ Frame

SpecBox == InitSwim /\ [][NextBox]_vars

\* the app switching scenes while the first scene mounts, is current, or has
\* been replaced
NextNav == Mount \/ SetScene
              \/ (\E i \in DOMAIN calls : ResumeUnmounted(i) \/ ResumeMounted(i))
              \/ (\E s \in DOMAIN mounts : SceneMountEnd(s))

SpecNav == InitApi /\ [][NextNav]_vars

\* the deck under arrow keys, where every timer that was set fires
NextDeck == Mount \/ (\E d \in {-1, 1} : OnKeyDown(d)) \/ AnimationEnd

SpecDeck == InitDeck /\ [][NextDeck]_vars /\ WF_vars(AnimationEnd)

\* State alone, from any saved inventory, under addItem calls
InitState ==
    \E loaded \in LoadedInventories :
        ConstructedOn(PopParams, ApiSpecies, {"x+"}, PopSepPeriod, loaded)

NextState == \E item \in Items : AddItem(item)

SpecState == InitState /\ [][NextState]_vars

\* the tour scene under marker clicks, texture loads in any order, and the
\* transition video ending or being closed
NextTour == TourMount \/ TourClick \/ TourGlitchEnd \/ TourLookEnd
               \/ TourVideoEnded \/ TourVideoClosed
               \/ (\E i \in DOMAIN recLoads : TourPhotoLoaded(i) \/ TourMarkerLoaded(i))

SpecTour == InitApi /\ [][NextTour]_vars

\* the scene with the bias of DEFAULT_PARAMS, mounted and ticking
NextDefaultBias == Mount \/ Frame

SpecDefaultBias == InitDefaultBias /\ [][NextDefaultBias]_vars

(* ------------------------------ properties ----------------------------- *)
\* The agent ids of this.fish
FishSet == {fish[i] : i \in 1..Len(fish)}

\* A click on slot i of species k that catches: the slot is active, holds an
\* agent, and the selected card is of species k
CatchesAt(k, i) ==
    /\ instanced[k].has
    /\ i < instanced[k].activeCount
    /\ At(instanced[k].instances, i) # Undefined
    /\ checkMatch(deck, k).isMatch
    /\ Click(InstHit(k, i))

\* C1: catching the agent at an active slot i that is not the last active
\* slot moves the agent of slot activeCount-1 into slot i and sets its
\* instanceId to i, lowers activeCount by exactly one, and leaves the slot
\* and the instanceId of every other active agent as they were.
C1_CatchMovesLastIntoSlot ==
    [][\A k \in DOMAIN instanced : \A i \in 0..(instanced[k].capacity - 1) :
          (CatchesAt(k, i) /\ i # instanced[k].activeCount - 1) =>
             LET last == instanced[k].activeCount - 1
                 moved == instanced[k].instances[last]
             IN  /\ At(instanced'[k].instances, i) = moved
                 /\ agents'[moved].instanceId = i
                 /\ instanced'[k].activeCount = instanced[k].activeCount - 1
                 /\ \A j \in (0..(last - 1)) \ {i} :
                       /\ At(instanced'[k].instances, j) = instanced[k].instances[j]
                       /\ agents'[instanced[k].instances[j]].instanceId = j
                 /\ \A q \in (DOMAIN instanced) \ {k} : instanced'[q] = instanced[q]
                 /\ \A b \in DOMAIN agents :
                       agents[b].species # k => agents'[b] = agents[b]]_vars

\* C1 witness: the first species has lost the agent of slot 0 and no other:
\* the agent spawned last sits in slot 0 and says so, with another agent
\* still behind it
C1_Witness ==
    /\ pc = "mounted"
    /\ instanced["dorado"].has
    /\ instanced["dorado"].capacity >= 3
    /\ instanced["dorado"].activeCount = instanced["dorado"].capacity - 1
    /\ At(instanced["dorado"].instances, 0) = instanced["dorado"].capacity
    /\ agents[instanced["dorado"].capacity].instanceId = 0
    /\ 1 \notin FishSet

\* An agent is active while this.fish holds it
Active(a) == a \in FishSet

\* An agent's instanceId is valid: it names a slot of the draw range of its
\* species' bag, and that slot holds the agent
ValidSlot(a) ==
    LET bag == instanced[agents[a].species]
        id == agents[a].instanceId
    IN  /\ bag.has
        /\ id # Undefined
        /\ id >= 0
        /\ id < bag.activeCount
        /\ At(bag.instances, id) = a

\* C2: a catch request on a slot or an agent that is no longer active changes
\* neither activeCount, nor the slot-to-agent mapping, nor any other agent's
\* instanceId, however often it is repeated.
C2_RepeatedCatchIsNoOp ==
    [][/\ \A a \in DOMAIN agents :
             (CatchFishCall(a) /\ ~Active(a)) =>
                LET k == agents[a].species
                IN  /\ instanced'[k].activeCount = instanced[k].activeCount
                    /\ instanced'[k].instances = instanced[k].instances
                    /\ \A b \in (DOMAIN agents) \ {a} :
                          agents'[b].instanceId = agents[b].instanceId
        /\ \A hit \in StaleHits :
             Click(hit) =>
                /\ instanced'[hit.key].activeCount = instanced[hit.key].activeCount
                /\ instanced'[hit.key].instances = instanced[hit.key].instances
                /\ \A b \in DOMAIN agents : agents'[b].instanceId = agents[b].instanceId]_vars

\* The slots of the draw range of every bag hold distinct agents
SlotsDistinct ==
    \A k \in DOMAIN instanced :
       instanced[k].has =>
          /\ \A i \in 0..(instanced[k].activeCount - 1) :
                At(instanced[k].instances, i) \in DOMAIN agents
          /\ \A i, j \in 0..(instanced[k].activeCount - 1) :
                i # j => At(instanced[k].instances, i) # At(instanced[k].instances, j)

\* C3: once spawn has completed, no tick and no catch raises the activeCount
\* of a species, and in every state the slots [0, activeCount) of a species
\* hold activeCount distinct, non-empty agent references.
C3_ActiveCountMonotoneSlotsDistinct ==
    /\ []SlotsDistinct
    /\ [][(pc \in {"spawned", "mounted"}) =>
             \A k \in DOMAIN instanced :
                instanced'[k].activeCount <= instanced[k].activeCount]_vars

\* C3 witness: after a tick that moved an agent and a catch, a population
\* with some but not all of its agents left
C3_Witness ==
    /\ pc = "mounted"
    /\ instanced["dorado"].has
    /\ instanced["dorado"].activeCount > 0
    /\ instanced["dorado"].activeCount < instanced["dorado"].capacity
    /\ \E a \in FishSet : agents[a].pos # agents[a].target

C5_AgentsInsideAfterTick ==
    [][Frame => \A a \in FishSet' : containsPoint(swimBox', agents'[a].pos)]_vars

\* C6: in a tick, every active agent for which a retarget trigger holds gets
\* a target inside the current swim box and a deadline in
\* [now + retargetTime[0], now + retargetTime[1]].
C6_RetargetInsideWithDeadline ==
    [][Frame =>
         \A a \in FishSet :
            RetargetDue(agents[a], swimBox', params.fish, now) =>
               /\ containsPoint(swimBox', agents'[a].target)
               /\ agents'[a].nextRetargetAt \in
                     (now + params.fish.retargetTime[1])..(now + params.fish.retargetTime[2])]_vars

\* min <= max on each axis
BoxOrdered(box) ==
    /\ box.min.x <= box.max.x
    /\ box.min.y <= box.max.y
    /\ box.min.z <= box.max.z

\* C7: after every volume update (initSwimBoxFromParams in mount,
\* updateSwimBoxDynamic in a tick) the swim box has min <= max on x, y and z,
\* whatever the world limits are.
C7_BoxOrderedAfterUpdate ==
    [][(MountBegin \/ Frame) => BoxOrdered(swimBox')]_vars

\* C8: after every volume refresh of the mounted scene (a tick, a wheel
\* event) max.x of the swim box is max(min.x + epsilon, camera x).
C8_MaxXFollowsCamera ==
    [][(pc = "mounted" /\ (Frame \/ \E dir \in {-1, 0, 1} : OnWheel(dir))) =>
          swimBox'.max.x = MathMax(swimBox'.min.x + Eps, camX')]_vars

\* The agents ever created for species k
AgentsOf(k) == {a \in DOMAIN agents : agents[a].species = k}

\* C9: mount() never fails on a species' asset; no agent exists for a species
\* whose template is unset; and when spawn has completed every species has
\* exactly its configured count of agents, each in this.fish and drawn
\* (holding a slot of its bag, or with its own mesh in the group), whatever
\* each asset load did.
C9_SpawnFullCounts ==
    /\ pc # "failed"
    /\ \A a \in DOMAIN agents : speciesObjs[agents[a].species].template # None
    /\ pc \in {"spawned", "mounted"} =>
          \A k \in Keys(speciesDefs) : Cardinality(AgentsOf(k)) = speciesObjs[k].count
    /\ pc = "spawned" =>
          \A a \in DOMAIN agents :
             /\ Active(a)
             /\ ValidSlot(a) \/ a \in fishGroup

\* C9 witness: spawn has completed with one species on the fallback prism
\* (its load failed or had no scene) and the other on its loaded model
C9_Witness ==
    /\ pc = "spawned"
    /\ speciesObjs["dorado"].usesFallback
    /\ speciesObjs["sabalo"].template = "model"
    /\ Cardinality(AgentsOf("dorado")) = speciesObjs["dorado"].count
    /\ Cardinality(AgentsOf("sabalo")) = speciesObjs["sabalo"].count

\* The state of species k's bag that spawn(count) is to leave behind
SpawnedInSlots(k) ==
    LET bag == instanced[k]
        n == speciesObjs[k].count
    IN  /\ bag.has
        /\ bag.activeCount = n
        /\ bag.activeCount <= bag.capacity
        /\ \A i \in 0..(n - 1) :
              /\ At(bag.instances, i) \in AgentsOf(k)
              /\ agents[At(bag.instances, i)].instanceId = i
        /\ \A a, b \in AgentsOf(k) : a # b => agents[a].instanceId # agents[b].instanceId

\* C10 as stated: when spawn completes, the agents of every species occupy
\* slots 0..count-1 with distinct instanceIds and activeCount = count.
C10_SpawnFillsSlots ==
    pc = "spawned" => \A k \in Keys(speciesDefs) : SpawnedInSlots(k)

\* C10: when spawn completes, the agents of every species whose template
\* holds a mesh occupy slots 0..count-1 with distinct instanceIds and
\* activeCount = count; a species whose template holds no mesh has no bag and
\* its count agents are in the group without a slot; and no bag's
\* activeCount ever exceeds its capacity.
C10_SpawnFillsSlotsOfMeshSpecies ==
    /\ pc = "spawned" =>
          \A k \in Keys(speciesDefs) :
             IF HasMesh(speciesObjs[k].template)
             THEN SpawnedInSlots(k)
             ELSE /\ ~instanced[k].has
                  /\ AgentsOf(k) \subseteq fishGroup
                  /\ \A a \in AgentsOf(k) : agents[a].instanceId = Undefined
    /\ \A k \in DOMAIN instanced : instanced[k].activeCount <= instanced[k].capacity

\* C10 witness: spawn has completed with the first species in its bag and
\* the second, whose model holds no mesh, in the group
C10_Witness ==
    /\ pc = "spawned"
    /\ SpawnedInSlots("dorado")
    /\ speciesObjs["sabalo"].template = "modelNoMesh"
    /\ AgentsOf("sabalo") # {}
    /\ AgentsOf("sabalo") \subseteq fishGroup

\* C11: once spawn has completed, and so after every catch, the instance
\* count the renderer draws for a species (inst.count) is the species'
\* activeCount.
C11_DrawCountIsActiveCount ==
    pc \in {"spawned", "mounted"} =>
       \A k \in DOMAIN instanced :
          instanced[k].has => instanced[k].count = instanced[k].activeCount

\* C11 witness: a catch has shrunk the draw range of the first species
C11_Witness ==
    /\ pc = "mounted"
    /\ instanced["dorado"].has
    /\ instanced["dorado"].count = instanced["dorado"].capacity - 1
    /\ instanced["dorado"].activeCount = instanced["dorado"].capacity - 1
    /\ Len(fish) < Cardinality(DOMAIN agents)

\* C12: a tick (one updateFish call) rebuilds the spatial index once when the
\* accumulated time sepAccum + dt has reached the period 1 / _sepHz and not
\* at all otherwise, and a rebuild resets the accumulator to zero; a dt of
\* several periods still gives one rebuild.
C12_RebuildAtMostOncePerTick ==
    [][\A dt \in 0..MaxSepDt :
          (Update(dt) /\ Len(fish) > 0) =>
             IF sepAccum + dt >= sepPeriod
             THEN tickLog'.rebuilds = 1 /\ sepAccum' = 0
             ELSE tickLog'.rebuilds = 0 /\ sepAccum' = sepAccum + dt]_vars

\* C12 witness: a tick has rebuilt the index over fish that are still all
\* active and has reset the accumulator
C12_Witness ==
    /\ pc = "mounted"
    /\ Len(fish) = SepCount
    /\ sepPeriod > 1
    /\ tickLog.rebuilds = 1
    /\ sepAccum = 0

\* C13: only a tick that rebuilds the index changes a stored separation
\* force, so between rebuild ticks every agent keeps the force of the most
\* recent rebuild tick; and a tick queries the index for neighbors only when
\* it has rebuilt it.
C13_ForceKeptBetweenRebuilds ==
    [][/\ (\A a \in DOMAIN agents : agents'[a].sepForce = agents[a].sepForce)
          \/ (\E dt \in 0..MaxSepDt :
                 Update(dt) /\ Len(fish) > 0 /\ sepAccum + dt >= sepPeriod)
       /\ \A dt \in 0..MaxSepDt :
             (Update(dt) /\ Len(fish) > 0) =>
                (tickLog'.queried <=> tickLog'.rebuilds = 1)]_vars

\* C13 witness: the last tick did not rebuild, time has accumulated since the
\* last rebuild, and an agent still holds the non-zero force of that rebuild
C13_Witness ==
    /\ pc = "mounted"
    /\ tickLog.rebuilds = 0
    /\ ~tickLog.queried
    /\ sepAccum > 0
    /\ \E a \in FishSet : agents[a].sepForce # Vec(0, 0, 0)

\* The points a query is made at: the swim box and one unit around it
ProbePoints ==
    {Vec(x, y, z) : x \in (swimBox.min.x - 1)..(swimBox.max.x + 1),
                    y \in (swimBox.min.y - 1)..(swimBox.max.y + 1),
                    z \in (swimBox.min.z - 1)..(swimBox.max.z + 1)}

\* The cell of q is one of the 27 cells around the cell of p
CellsAdjacent(s, p, q) ==
    \A i \in 1..3 : hashKey(s, q)[i] - hashKey(s, p)[i] \in {-1, 0, 1}

\* C14: after rebuild(this.fish) with cell size s, neighbors(p) lists exactly
\* the agents hashed into the 27 cells around the cell floor(p / s), each
\* once, so it holds every agent within distance s of p; for the cell size
\* of updateFish and the other sizes up to the constructor's.
C14_NeighborsAreThe27Cells ==
    (pc = "mounted" /\ Len(fish) > 0) =>
       \A s \in {MathMax(Eps, params.fish.separationRadius)} \cup (1..NewHash.s) :
          LET h == rebuild([s |-> s], fish, agents)
          IN  \A p \in ProbePoints :
                 LET nbrs == neighbors(h, p)
                     near == {a \in FishSet : CellsAdjacent(s, p, agents[a].pos)}
                 IN  /\ {nbrs[i] : i \in 1..Len(nbrs)} = near
                     /\ Len(nbrs) = Cardinality(near)
                     /\ \A a \in FishSet : DistSq(agents[a].pos, p) <= s * s => a \in near

\* C14 witness: the agents sit in three cells of the index of updateFish, so
\* that a query at the first cell returns one agent, leaves one out, and a
\* query in the middle returns all
C14_Witness ==
    /\ pc = "mounted"
    /\ Len(fish) = SepCount
    /\ LET s == MathMax(Eps, params.fish.separationRadius)
           h == rebuild([s |-> s], fish, agents)
       IN  \E a, b, c \in FishSet :
              /\ hashKey(s, agents[a].pos)[1] = 0
              /\ hashKey(s, agents[b].pos)[1] = 1
              /\ hashKey(s, agents[c].pos)[1] = 2
              /\ Len(neighbors(h, agents[a].pos)) = SepCount - 1
              /\ Len(neighbors(h, agents[b].pos)) = SepCount

\* The active fish a click's first intersection lands on: the agent of a slot
\* of the draw range, or the agent whose own object was hit
HitsActiveFish(hit, a) ==
    /\ a \in FishSet
    /\ \/ hit.kind = "inst" /\ instanced[hit.key].has
             /\ hit.slot < instanced[hit.key].activeCount
             /\ At(instanced[hit.key].instances, hit.slot) = a
       \/ hit.kind = "object" /\ hit.id = a

\* The species key of the deck's selected card
SelectedKey == deck.cards[deck.currentIndex + 1].key

\* The count of every deck card
CardCounts == [i \in DOMAIN deck.cards |-> deck.cards[i].count]

\* C15: a click that hits an active fish removes exactly that fish from
\* this.fish when the fish's species is the deck's selected species; when it
\* is not, the click changes no activeCount, no slot mapping, not the global
\* agent list and no deck counter.
C15_ClickCatchesOnMatch ==
    [][\A hit \in RaycastHits \cup {ObjectHit(b) : b \in fishGroup} :
          \A a \in DOMAIN agents :
             (Click(hit) /\ HitsActiveFish(hit, a)) =>
                IF agents[a].species = SelectedKey
                THEN /\ a \notin FishSet'
                     /\ FishSet' = FishSet \ {a}
                     /\ Len(fish') = Len(fish) - 1
                ELSE /\ fish' = fish
                     /\ \A k \in DOMAIN instanced :
                           /\ instanced'[k].activeCount = instanced[k].activeCount
                           /\ instanced'[k].instances = instanced[k].instances
                     /\ CardCounts' = CardCounts]_vars

\* C16 as stated: every step that removes an agent from this.fish appends to
\* the emitted events one removal notification that carries the agent's
\* species key and the species' new active count.
C16_CatchEmitsRemoval ==
    [][\A a \in DOMAIN agents :
          (a \in FishSet /\ a \notin FishSet') =>
             /\ Len(events') = Len(events) + 1
             /\ events'[Len(events')] = [type |-> "removed", key |-> agents[a].species,
                                         count |-> instanced'[agents[a].species].activeCount]]_vars

\* C16, the bookkeeping the code does instead: a catch emits nothing.  Every click
\* that removes an agent from this.fish has, in the same handler and before
\* the removal, revealed the selected card, which is the card of the removed
\* agent's species, and raised that card's counter by one, leaving the other
\* cards as they were; no event is emitted by any step.
C16_CatchCountedByDeck ==
    /\ [](events = <<>>)
    /\ [][\A a \in DOMAIN agents :
             (a \in FishSet /\ a \notin FishSet') =>
                LET i == deck.currentIndex + 1
                IN  /\ deck.cards[i].key = agents[a].species
                    /\ deck'.cards[i].revealed
                    /\ deck'.cards[i].count = deck.cards[i].count + 1
                    /\ \A j \in DOMAIN deck.cards : j # i => deck'.cards[j] = deck.cards[j]]_vars

\* C16, the case of that bookkeeping: a fish has been caught, its species' card is revealed and has
\* counted it, and nothing has been emitted
C16_Witness ==
    /\ pc = "mounted"
    /\ Len(fish) < Cardinality(DOMAIN agents)
    /\ \E i \in DOMAIN deck.cards :
          /\ deck.cards[i].key = "dorado"
          /\ deck.cards[i].revealed
          /\ deck.cards[i].count = 1
    /\ instanced["dorado"].activeCount = instanced["dorado"].capacity - 1
    /\ events = <<>>

\* C17: after any sequence of App.start() and App.stop() calls at most one
\* frame loop is live, so that while the app runs at most one loop callback
\* is queued or running and an animation frame that updates the scene runs
\* no second callback: one tick per rendered frame.
C17_OneLiveLoop ==
    /\ [](running => pendingRaf + frameQueue <= 1)
    /\ [][(RunCallback /\ running) => frameQueue' = 0]_vars

\* The deadline of agent a has been reached
RetargetDueNow(a) == now >= agents[a].nextRetargetAt

\* C18: an active agent's deadline is never more than retargetMax ahead; a
\* tick at or after the deadline replaces the agent's target by a fresh draw
\* and sets a deadline between retargetMin and retargetMax ahead; and while
\* the clock advances and frames keep being ticked every agent either stops
\* being active or gets a later deadline again and again, so none keeps a
\* target forever.
C18_RetargetsAgainAndAgain ==
    /\ [](\A a \in FishSet :
             agents[a].nextRetargetAt <= now + params.fish.retargetTime[2])
    /\ [][\A dt \in 0..MaxDt : \A a \in FishSet :
             (Update(dt) /\ RetargetDueNow(a)) =>
                /\ agents'[a].target \in randBiasedPoint(speciesObjs[agents[a].species], swimBox')
                /\ agents'[a].nextRetargetAt \in
                      (now + params.fish.retargetTime[1])..(now + params.fish.retargetTime[2])]_vars
    /\ \A a \in 1..LiveCount :
          \/ []<>(a \notin FishSet)
          \/ []<><<a \in FishSet /\ agents'[a].nextRetargetAt > agents[a].nextRetargetAt>>_vars

\* C18 witness: an active agent whose deadline has been reached, next to a
\* caught one
C18_Witness ==
    /\ pc = "mounted"
    /\ Len(fish) = LiveCount - 1
    /\ \E a \in FishSet : RetargetDueNow(a)

\* C19: a catch keeps every transform with its agent.  After a step that
\* shrinks a species' draw range, the buffer entry of every slot of the new
\* range is the entry that was stored, before the step, at the slot of the
\* agent now mapped to it; and when the caught agent's slot was not the last
\* active one, the entry at that slot is the one that was stored at the last
\* active slot.
C19_CatchKeepsTransformsWithAgents ==
    [][\A k \in DOMAIN instanced :
          (instanced[k].has /\ instanced'[k].activeCount < instanced[k].activeCount) =>
             LET bag == instanced[k]
                 after == instanced'[k]
                 lastActiveId == bag.activeCount - 1
             IN  /\ \A s \in 0..(after.activeCount - 1) :
                       LET b == At(after.instances, s)
                       IN  /\ b # Undefined
                           /\ agents'[b].instanceId = s
                           /\ getMatrixAt(after, s) = getMatrixAt(bag, agents[b].instanceId)
                 /\ \A a \in FishSet \ FishSet' :
                       (agents[a].species = k /\ agents[a].instanceId # lastActiveId) =>
                          getMatrixAt(after, agents[a].instanceId) = getMatrixAt(bag, lastActiveId)]_vars

\* C19 witness: the agent spawned first has been caught and no other; the
\* agent spawned last sits in slot 0 with its own transform, which differs
\* from the transform the caught agent left at the tail
C19_Witness ==
    /\ pc = "mounted"
    /\ instanced["dorado"].has
    /\ instanced["dorado"].capacity = SepCount
    /\ instanced["dorado"].activeCount = SepCount - 1
    /\ 1 \notin FishSet
    /\ At(instanced["dorado"].instances, 0) = SepCount
    /\ getMatrixAt(instanced["dorado"], 0) = Pose(agents[SepCount])
    /\ getMatrixAt(instanced["dorado"], 0) # getMatrixAt(instanced["dorado"], SepCount - 1)

\* C20: after the velocity update of a tick every active agent's speed lies
\* between min(speedMin, 0.9 * speedMax) and speedMax, whatever the velocity
\* before the tick and whatever the force, so that no agent ends a tick with
\* zero speed.
C20_SpeedClampedAfterTick ==
    [][\A dt \in 0..MaxDt :
          Update(dt) =>
             \A a \in FishSet :
                LET max == agents'[a].speedMax
                    min == MathMin(agents'[a].speedMin, (max * 9) \div 10)
                IN  /\ agents'[a].vel.spd >= min
                    /\ agents'[a].vel.spd <= max
                    /\ agents'[a].vel.spd > 0]_vars

\* The value the bias formula gives on one axis for a mean fraction (in
\* percent): min + clamp(mean, 0, 1) * span
MeanPoint(lo, hi, mean) == lo + (clamp(mean, 0, 100) * (hi - lo)) \div 100

\* C21: every point randBiasedPoint returns for a species on the scene's
\* volume is inside that volume on every axis, and for a species whose sigma
\* is 0 on X (on Y) the returned x (y) is min + clamp(mean, 0, 1) * span.
C21_RandBiasedPointInsideAndExact ==
    (pc \in {"deck", "spawned", "mounted"}) =>
        \A k \in DOMAIN speciesObjs :
            \A p \in randBiasedPoint(speciesObjs[k], swimBox) :
                /\ containsPoint(swimBox, p)
                /\ (speciesObjs[k].biasXSigma = 0) =>
                      p.x = MeanPoint(swimBox.min.x, swimBox.max.x, speciesObjs[k].biasXMean)
                /\ (speciesObjs[k].biasYSigma = 0) =>
                      p.y = MeanPoint(swimBox.min.y, swimBox.max.y, speciesObjs[k].biasYMean)

\* C22: with the default parameters sigma is 0 for X and for Y in every
\* stratum, so any two points randBiasedPoint returns for one species on one
\* volume have the same x and the same y.
C22_DefaultBiasSameXY ==
    (pc \in {"deck", "spawned", "mounted"}) =>
        /\ \A s \in DOMAIN params.fishPositionBias.sigmaX : params.fishPositionBias.sigmaX[s] = 0
        /\ \A s \in DOMAIN params.fishPositionBias.sigmaY : params.fishPositionBias.sigmaY[s] = 0
        /\ \A k \in DOMAIN speciesObjs :
              \A p, q \in randBiasedPoint(speciesObjs[k], swimBox) : p.x = q.x /\ p.y = q.y

\* C23: every dt the frame loop passes to the scene's update lies between 0
\* and the cap, whatever time has elapsed since the previous loop call (a
\* long stall, the gap between stop() and start()).
C23_DtWithinCap ==
    (loopLog.dt # Undefined) => (loopLog.dt >= 0 /\ loopLog.dt <= DtCap)

\* a loop call made by start() after a gap longer than the cap, on the
\* mounted scene with fish
C23_Witness ==
    /\ pc = "mounted"
    /\ Len(fish) > 0
    /\ loopLog.elapsed > DtCap
    /\ loopLog.dt = DtCap
    /\ running
    /\ pendingRaf = 2

\* C24: in a tick, an active agent for which no retarget trigger holds (its
\* target is at least targetReachDist away, the clock is before its deadline,
\* its target is inside the refreshed volume) keeps its target and its
\* deadline.
C24_NoTriggerKeepsTarget ==
    [][Frame =>
         \A a \in FishSet :
            (/\ DistSq(agents[a].target, agents[a].pos) >=
                    params.fish.targetReachDist * params.fish.targetReachDist
             /\ now < agents[a].nextRetargetAt
             /\ containsPoint(swimBox', agents[a].target)) =>
                /\ agents'[a].target = agents[a].target
                /\ agents'[a].nextRetargetAt = agents[a].nextRetargetAt]_vars

\* a mounted scene where one active agent has a trigger and another has none
C24_Witness ==
    /\ pc = "mounted"
    /\ \E a, b \in FishSet :
          /\ RetargetDue(agents[a], swimBox, params.fish, now)
          /\ ~RetargetDue(agents[b], swimBox, params.fish, now)
          /\ agents[b].pos # agents[b].target

\* The agents held in slots [0, activeCount) of the species bags
SlotAgents ==
    UNION {{At(instanced[k].instances, i) : i \in 0..(instanced[k].activeCount - 1)} \ {Undefined} :
              k \in DOMAIN instanced}

\* C25: this.fish holds exactly the agents of slots [0, activeCount) of the
\* species bags, each once; so a tick leaves every agent outside this.fish as
\* it was and writes no transform slot at or above activeCount.
C25_FishListIsActiveSlots ==
    /\ [](/\ \A i, j \in 1..Len(fish) : (fish[i] = fish[j]) => (i = j)
          /\ FishSet = SlotAgents
          /\ \A k \in DOMAIN instanced :
                \A i, j \in 0..(instanced[k].activeCount - 1) :
                    (At(instanced[k].instances, i) = At(instanced[k].instances, j)) => (i = j))
    /\ [][Frame =>
            /\ \A a \in (DOMAIN agents) \ FishSet : agents'[a] = agents[a]
            /\ \A k \in DOMAIN instanced :
                  \A i \in DOMAIN instanced[k].matrix :
                      (i >= instanced[k].activeCount) =>
                          instanced'[k].matrix[i] = instanced[k].matrix[i]]_vars

\* The active count of species k: its bag's activeCount, and for a species
\* without a bag the number of its agents in this.fish
ActiveCountOf(k) ==
    IF instanced[k].has THEN instanced[k].activeCount
    ELSE Cardinality({a \in FishSet : agents[a].species = k})

\* C26: on the mounted scene, for every species, the deck card's catch
\* counter plus the species' active count is the number of agents spawned for
\* the species.
C26_CounterPlusActiveIsSpawned ==
    (pc = "mounted") =>
        \A i \in DOMAIN deck.cards :
            deck.cards[i].count + ActiveCountOf(deck.cards[i].key)
                = Cardinality(AgentsOf(deck.cards[i].key))

\* Every setScene call made so far has run to its end
AllSettled == \A i \in DOMAIN calls : calls[i].pc = "settled"

\* C27: once every setScene call has settled, the current scene is the last
\* one requested, its mount has finished, and no other scene has input
\* listeners on the canvas.
C27_LastSceneOnlyListens ==
    AllSettled =>
        /\ current = calls[Len(calls)].scene
        /\ mounts[current] = "done"
        /\ listeners \subseteq {current}

\* C28: the inventory never holds two entries with one id; an addItem call
\* with an id already present changes nothing, saves nothing and emits
\* nothing; a call with a new id appends one entry for the item, saves the
\* inventory once and emits 'inventory:changed' once.
C28_AddItemOncePerId ==
    /\ [](\A i, j \in DOMAIN inventory : (inventory[i].id = inventory[j].id) => (i = j))
    /\ [][\A item \in Items :
             AddItem(item) =>
                IF \E i \in DOMAIN inventory : inventory[i].id = item.id
                THEN inventory' = inventory /\ saves' = saves /\ events' = events
                ELSE /\ Len(inventory') = Len(inventory) + 1
                     /\ \A i \in DOMAIN inventory : inventory'[i] = inventory[i]
                     /\ inventory'[Len(inventory')].id = item.id
                     /\ inventory'[Len(inventory')].name = item.name
                     /\ Len(saves') = Len(saves) + 1
                     /\ saves'[Len(saves')] = inventory'
                     /\ events' = Append(events, [type |-> "inventory:changed"])]_vars

\* a loaded inventory to which every other id has been added, each saved and
\* announced once
C28_Witness ==
    /\ Len(inventory) = MaxItems
    /\ Len(saves) = MaxItems - 1
    /\ Len(events) = Len(saves)
    /\ inventory[1].whenISO = 0

\* C29: a cycle while the carousel is animating changes nothing; otherwise it
\* moves the selection by one, wrapping around at both ends, and starts an
\* animation; on the mounted scene the selected index is in [0, number of
\* cards); and every animation ends, so cycling is never blocked forever.
C29_CycleWrapsAndUnblocks ==
    /\ [][\A d \in {-1, 1} :
             OnKeyDown(d) =>
                IF deck.isAnimating
                THEN deck' = deck
                ELSE /\ deck'.isAnimating
                     /\ deck'.cards = deck.cards
                     /\ deck'.currentIndex =
                           (IF deck.currentIndex + d < 0 THEN Len(deck.cards) - 1
                            ELSE IF deck.currentIndex + d >= Len(deck.cards) THEN 0
                            ELSE deck.currentIndex + d)]_vars
    /\ []((pc = "mounted") => (deck.currentIndex >= 0 /\ deck.currentIndex < Len(deck.cards)))
    /\ (deck.isAnimating ~> ~deck.isAnimating)

\* the selection has wrapped from the last card to the first and the
\* carousel is animating
C29_Witness ==
    /\ pc = "mounted"
    /\ Len(deck.cards) = 3
    /\ deck.currentIndex = 0
    /\ deck.isAnimating

\* Nothing of the tour is pending: the config is loaded, no loadStage call,
\* click chain or transition video is in flight
TourSettled ==
    /\ recStages # <<>>
    /\ recLoads = <<>>
    /\ recGlitch = 0 /\ recLook = 0
    /\ ~recVideo

\* C30: once everything has settled, the displayed panorama and marker are
\* those of stage current, and current has advanced by one stage, modulo the
\* number of stages, for each marker click.
C30_TourShowsCurrentStage ==
    TourSettled =>
        /\ recShown.photo = recCurrent
        /\ recShown.marker = recCurrent
        /\ recCurrent = recClicks % Len(recStages)

====
